---- MODULE Spec2Model ----
(***************************************************************************)
(* Model of the IP-rotation control loop of tornet (src/tornet.py):        *)
(* change_ip_repeatedly -> change_ip -> change_ip_via_control_port /       *)
(* reload_tor_service -> ma_ip_tor, and the SIGINT/SIGQUIT handler         *)
(* signal_handler -> stop_services -> stop_tor_service_gracefully.         *)
(*                                                                         *)
(* Text is a sequence of characters; a character is a number: 0 is a       *)
(* whitespace character, d in 1..NumAddrs is the text of the d-th address. *)
(* Python's None is the one-element tuple <<-1>>, which is not a text.     *)
(***************************************************************************)
EXTENDS Integers, Sequences, FiniteSets, TLC

\* ---------------------------------------------------------------- bounds
NumAddrs == 2
MaxRetries == 2
MaxCount == 1
MaxSignals == 2

\* ------------------------------------------------------------- constants
\* exit status of a process terminated by SIGTERM (128 + 15)
SigTermStatus == 143
\* check_internet_connection: `for _ in range(3)`
ConnTries == 3
\* change_ip's default ip_check_interval, the settle pause in seconds
ip_check_interval == 5

\* ---------------------------------------------------------------- values
None == <<-1>>
Unset == <<-2>>
Addrs == {<<d>> : d \in 1..NumAddrs}
\* response bodies of the IP-echo endpoint: empty, blank, an address, an
\* address with a trailing newline, an address with a leading blank
Bodies == {<<>>, <<0>>} \cup {<<d>> : d \in 1..NumAddrs}
          \cup {<<d, 0>> : d \in 1..NumAddrs} \cup {<<0, d>> : d \in 1..NumAddrs}

\* str.strip(): drop leading and trailing whitespace
RECURSIVE LStrip(_)
LStrip(s) == IF s # <<>> /\ Head(s) = 0 THEN LStrip(Tail(s)) ELSE s

RECURSIVE RStrip(_)
RStrip(s) == IF s # <<>> /\ s[Len(s)] = 0 THEN RStrip(SubSeq(s, 1, Len(s) - 1)) ELSE s

Strip(s) == RStrip(LStrip(s))

\* Python truthiness of an optional string
Truthy(v) == v # None /\ v # <<>>

\* what requests.get on the IP-echo endpoint can do
Responses == {[status |-> "ok", text |-> b] : b \in Bodies}
             \cup {[status |-> s, text |-> <<>>] : s \in {"timeout", "request_exception"}}

\* ma_ip_tor: the stripped body, or None on Timeout / RequestException
ma_ip_tor(resp) == IF resp.status = "ok" THEN Strip(resp.text) ELSE None

\* variant: only the timeout is caught
ProbeCatches_OnlyTimeout(status) == status = "timeout"

\* ma_ip_tor / ma_ip_normal: `except requests.exceptions.Timeout` and
\* `except requests.RequestException`
ProbeCatches(status) == status \in {"timeout", "request_exception"}

\* ma_ip_tor / ma_ip_normal: one requests.get per call, in no loop
LookupsIssued(resp) == 1

OsTypes == {"Linux", "macOS", "Windows", "Unknown"}

\* values of platform.system()
Systems == {"Linux", "Darwin", "Windows", "FreeBSD", "Java", ""}

\* variant: Darwin is not recognised
get_os_type_NoDarwin(sys) ==
    CASE sys = "Linux" -> "Linux"
      [] sys = "Windows" -> "Windows"
      [] OTHER -> "Unknown"

\* get_os_type
get_os_type(sys) ==
    CASE sys = "Linux" -> "Linux"
      [] sys = "Darwin" -> "macOS"
      [] sys = "Windows" -> "Windows"
      [] OTHER -> "Unknown"

\* is_tor_installed: `which tor` exits 0 on Linux/macOS, one of the two
\* tor.exe paths exists on Windows, False for any other OS type
is_tor_installed(os, which_status, tb, standalone) ==
    CASE os \in {"Linux", "macOS"} -> which_status = 0
      [] os = "Windows" -> tb \/ standalone
      [] OTHER -> FALSE

\* the facts of the host that get_os_type and is_tor_installed read
Hosts == [system : Systems, which_tor : {0, 1}, exists_tb : BOOLEAN,
          exists_system : BOOLEAN]

\* hosts of the main specification: the facts that the detected OS does
\* not look at are left at "not found"
MainHosts ==
    {h \in Hosts :
        /\ h.system \in {"Linux", "Darwin", "Windows", "FreeBSD"}
        /\ h.exists_system = FALSE
        /\ h.system # "Windows" => h.exists_tb = FALSE
        /\ h.system \notin {"Linux", "Darwin"} => h.which_tor = 1}

\* variant: the systemctl command on macOS too
reload_tor_service_SameCmd(os) ==
    CASE os \in {"Linux", "macOS"} -> "sudo systemctl reload tor"
      [] os = "Windows" -> "guidance"
      [] OTHER -> "unsupported"

\* reload_tor_service: the service command issued for the detected OS
reload_tor_service(os) ==
    CASE os = "Linux" -> "sudo systemctl reload tor"
      [] os = "macOS" -> "brew services restart tor"
      [] os = "Windows" -> "guidance"
      [] OTHER -> "unsupported"

\* stop_tor_service_gracefully: the OS-level stop for the detected OS
stop_tor_service_cmd(os) ==
    CASE os = "Linux" -> "sudo systemctl stop tor"
      [] os = "macOS" -> "brew services stop tor"
      [] os = "Windows" -> "guidance"
      [] OTHER -> "unsupported"

IsCommand(c) == c \notin {"guidance", "unsupported", "none"}

\* outcomes of the geolocation lookup
GeoLookups == {"country", "no_country", "request_exception", "other_exception"}

\* get_ip_geolocation: a country name, "Unknown", or an exception that is
\* not a requests.RequestException and so leaves the function ("RAISE")
get_ip_geolocation(ip, lookup) ==
    IF ~Truthy(ip) THEN "Unknown"
    ELSE CASE lookup = "country" -> "Country"
           [] lookup = "no_country" -> "Unknown"
           [] lookup = "request_exception" -> "Unknown"
           [] OTHER -> "RAISE"

VARIABLES
    system,                   \* platform.system() of the host
    which_tor,                \* exit status of `which tor` on the host
    exists_tb,                \* the Tor Browser tor.exe path exists
    exists_system,            \* the standalone tor.exe path exists
    args,                     \* the parsed --ip, --auto-fix, --stop flags
    installed,                \* is_tor_installed() in main: "unset", "True", "False"
    connected,                \* check_internet_connection: "unset", "True", "False"
    conn_tries,               \* check_internet_connection: failed tries so far
    os_type,                  \* get_os_type() of the host
    STEM_AVAILABLE,           \* the stem import succeeded
    count,                    \* --count
    max_retries,              \* change_ip's max_retries
    pc,                       \* position of the main line
    proc,                     \* "running", "returned", "crashed", "exited", "killed"
    exit_status,              \* exit status once the process has ended, else -1
    i,                        \* iterations of the for loop completed
    attempt,                  \* change_ip: the loop variable
    current_ip_before_change, \* change_ip: the comparison value
    new_ip,                   \* change_ip: the candidate
    ret,                      \* change_ip_repeatedly's new_ip: what change_ip returned
    calls,                    \* change_ip calls so far (saturates at MaxCount)
    baseline,                 \* result of the probe at the start of the call
    rotations,                \* rotation steps of the current call
    probes,                   \* post-rotation probes of the current call
    settles,                  \* settle sleeps of the current call
    prior_unchanged,          \* every probe of the call's earlier attempts returned the baseline
    terminal_failures,        \* "Failed to change IP after ..." reports of the call
    ctl_ret,                  \* change_ip_via_control_port() of this attempt
    reload_ret,               \* reload_tor_service() of this attempt
    reload_cmd,               \* what reload_tor_service did in this attempt
    reload_dispatch,          \* os.system status of the reload command
    att_log,                  \* steps of this attempt, in order
    hpc,                      \* position inside signal_handler, "none" outside
    h_log,                    \* steps of the running signal_handler, in order
    stop_calls,               \* stop_services invocations
    signals,                  \* signals delivered
    fell_back,                \* an earlier rotation of the run used reload_tor_service
    slept,                    \* seconds of settle sleep in the current call
    lookups,                  \* requests.get calls of the probes of the current call
    warn_log,                 \* warnings reported by the current attempt of change_ip
    cycle_slept,              \* time.sleep(interval) of the current cycle has returned
    reported,                 \* print_ip has printed its line since the cycle (or --ip) began
    ip,                       \* main's ip in --ip mode
    ip_log                    \* ma_ip: what is_tor_running said, then the probes made

hostv == <<system, which_tor, exists_tb, exists_system>>
startv == <<args, installed, connected, conn_tries>>
cfg == <<os_type, STEM_AVAILABLE, count, max_retries, hostv, startv>>
cyclev == <<cycle_slept, reported>>
ipv == <<ip, ip_log>>
auxv == <<fell_back, slept, lookups, warn_log, cyclev, ipv>>
loopv == <<i, ret, calls>>
callv == <<attempt, current_ip_before_change, new_ip, baseline, rotations, probes,
           settles, prior_unchanged, terminal_failures>>
attv == <<ctl_ret, reload_ret, reload_cmd, reload_dispatch, att_log>>
sigv == <<hpc, h_log, stop_calls, signals>>
procv == <<proc, exit_status>>
vars == <<cfg, pc, procv, loopv, callv, attv, sigv, auxv>>

\* nothing has run yet
InitIdle ==
    /\ installed = "unset"
    /\ connected = "unset"
    /\ conn_tries = 0
    /\ fell_back = FALSE
    /\ slept = 0
    /\ lookups = 0
    /\ warn_log = <<>>
    /\ cycle_slept = FALSE
    /\ reported = FALSE
    /\ ip = Unset
    /\ ip_log = <<>>
    /\ proc = "running"
    /\ exit_status = -1
    /\ i = 0
    /\ attempt = 0
    /\ current_ip_before_change = Unset
    /\ new_ip = Unset
    /\ ret = Unset
    /\ calls = 0
    /\ baseline = Unset
    /\ rotations = 0
    /\ probes = 0
    /\ settles = 0
    /\ prior_unchanged = TRUE
    /\ terminal_failures = 0
    /\ ctl_ret = "unset"
    /\ reload_ret = "unset"
    /\ reload_cmd = "none"
    /\ reload_dispatch = "none"
    /\ att_log = <<>>
    /\ hpc = "none"
    /\ h_log = <<>>
    /\ stop_calls = 0
    /\ signals = 0

\* main, after the handlers are registered and the arguments parsed
Init ==
    /\ \E h \in MainHosts :
        /\ system = h.system
        /\ which_tor = h.which_tor
        /\ exists_tb = h.exists_tb
        /\ exists_system = h.exists_system
    /\ os_type = get_os_type(system)
    /\ args \in [ip : BOOLEAN, auto_fix : BOOLEAN, stop : BOOLEAN]
    /\ STEM_AVAILABLE \in BOOLEAN
    /\ count \in -1..MaxCount
    /\ max_retries \in 0..MaxRetries
    /\ pc = "main"
    /\ InitIdle

\* the main line runs only while no signal handler is on the stack
MainAt(p) == proc = "running" /\ hpc = "none" /\ pc = p

\* ----------------------------------------------------------------- main
\* `if args.ip:` comes before every other check
MainStart ==
    /\ MainAt("main")
    /\ pc' = IF args.ip THEN "ip_mode" ELSE "check_installed"
    /\ UNCHANGED <<cfg, auxv, procv, loopv, callv, attv, sigv>>

\* is_tor_running: `pgrep -x tor` on Linux and macOS, assumed running on
\* Windows, False on an unknown OS
is_tor_running(os, pgrep_status) ==
    CASE os \in {"Linux", "macOS"} -> pgrep_status = 0
      [] os = "Windows" -> TRUE
      [] OTHER -> FALSE

\* ma_ip_normal: the stripped body of the direct request, or None
ma_ip_normal(resp) == IF resp.status = "ok" THEN Strip(resp.text) ELSE None

\* ma_ip: `if is_tor_running(): return ma_ip_tor()` / `else: return
\* ma_ip_normal()`; what is_tor_running said and the probe made, and the
\* value returned
ma_ip(running, resp) ==
    IF running
    THEN [log |-> <<"running", "ma_ip_tor">>, value |-> ma_ip_tor(resp)]
    ELSE [log |-> <<"not_running", "ma_ip_normal">>, value |-> ma_ip_normal(resp)]

\* --ip: ip = ma_ip(); `if ip: print_ip(ip)`; return
IpMode ==
    /\ MainAt("ip_mode")
    /\ \E pgrep_status \in {0, 1}, resp \in Responses, lookup \in GeoLookups :
        LET r == ma_ip(is_tor_running(os_type, pgrep_status), resp)
        IN  /\ ip' = r.value
            /\ ip_log' = r.log
            /\ IF ~Truthy(r.value)
               THEN proc' = "returned" /\ exit_status' = 0 /\ UNCHANGED reported
               ELSE IF get_ip_geolocation(r.value, lookup) = "RAISE"
               THEN proc' = "crashed" /\ exit_status' = 1 /\ UNCHANGED reported
               ELSE proc' = "returned" /\ exit_status' = 0 /\ reported' = TRUE
    /\ pc' = "done"
    /\ UNCHANGED <<cfg, fell_back, slept, lookups, warn_log, cycle_slept, loopv, callv, attv,
                   sigv>>

\* where main goes once Tor is found: --auto-fix, then --stop, then the run
AfterInstalled(a) ==
    IF a.auto_fix THEN "auto_fix" ELSE IF a.stop THEN "stop" ELSE "check_internet"

\* `if not is_tor_installed(): ... return`
CheckInstalled ==
    /\ MainAt("check_installed")
    /\ IF is_tor_installed(os_type, which_tor, exists_tb, exists_system)
       THEN /\ installed' = "True"
            /\ pc' = AfterInstalled(args)
            /\ UNCHANGED procv
       ELSE /\ installed' = "False"
            /\ pc' = "done"
            /\ proc' = "returned"
            /\ exit_status' = 0
    /\ UNCHANGED <<os_type, STEM_AVAILABLE, count, max_retries, hostv, args, connected,
                   conn_tries, auxv, loopv, callv, attv, sigv>>

\* --auto-fix: auto_fix(); return
AutoFix ==
    /\ MainAt("auto_fix")
    /\ pc' = "done"
    /\ proc' = "returned"
    /\ exit_status' = 0
    /\ UNCHANGED <<cfg, auxv, loopv, callv, attv, sigv>>

\* --stop: stop_services(); return. The pkill of stop_services reaches this
\* process too when its command line contains "tornet"
MainStop ==
    /\ MainAt("stop")
    /\ stop_calls' = stop_calls + 1
    /\ \E self_matches \in BOOLEAN :
        IF self_matches
        THEN proc' = "killed" /\ exit_status' = SigTermStatus
        ELSE proc' = "returned" /\ exit_status' = 0
    /\ pc' = "done"
    /\ UNCHANGED <<cfg, auxv, loopv, callv, attv, hpc, h_log, signals>>

\* check_internet_connection: `for _ in range(3)`
HasNextTry(t) == t < ConnTries

\* check_internet_connection: a try that succeeds returns True, a try that
\* raises RequestException is reported; after the last try exit(1)
CheckInternet ==
    /\ MainAt("check_internet")
    /\ IF HasNextTry(conn_tries)
       THEN \E ok \in BOOLEAN :
               IF ok
               THEN /\ connected' = "True"
                    /\ conn_tries' = 0
                    /\ pc' = "initialize"
                    /\ UNCHANGED procv
               ELSE /\ conn_tries' = conn_tries + 1
                    /\ UNCHANGED <<connected, pc, procv>>
       ELSE /\ connected' = "False"
            /\ proc' = "exited"
            /\ exit_status' = 1
            /\ pc' = "done"
            /\ UNCHANGED conn_tries
    /\ UNCHANGED <<os_type, STEM_AVAILABLE, count, max_retries, hostv, args, installed,
                   auxv, loopv, callv, attv, sigv>>

\* print_banner(); initialize_environment(); then change_ip_repeatedly
Initialize ==
    /\ MainAt("initialize")
    /\ pc' = "loop_head"
    /\ UNCHANGED <<cfg, auxv, procv, loopv, callv, attv, sigv>>

\* ------------------------------------------------- change_ip_repeatedly
\* variant: a negative count loops for ever too
LoopContinues_NonPositive(c, k) == c <= 0 \/ k < c

\* `while True` for count = 0, `for i in range(count)` otherwise
LoopContinues(c, k) == c = 0 \/ k < c

LoopHead ==
    /\ MainAt("loop_head")
    /\ IF LoopContinues(count, i)
       THEN pc' = "interval_sleep" /\ UNCHANGED procv
       ELSE pc' = "done" /\ proc' = "returned" /\ exit_status' = 0
    /\ UNCHANGED <<cfg, auxv, loopv, callv, attv, sigv>>

IntervalSleep ==
    /\ MainAt("interval_sleep")
    /\ cycle_slept' = TRUE
    /\ reported' = FALSE
    /\ pc' = "change_ip"
    /\ UNCHANGED <<cfg, fell_back, slept, lookups, warn_log, ipv, procv, loopv, callv, attv,
                   sigv>>

\* ------------------------------------------------------------ change_ip
\* variant: a failed baseline probe ends the call
AfterBaseline_Abort(v) == IF Truthy(v) THEN "attempt_head" ELSE "cycle_end"

\* `if not current_ip_before_change:` reports and proceeds with the change
\* anyway
AfterBaseline(v) == "attempt_head"

\* entry of change_ip and the baseline probe (current_ip_before_change =
\* ma_ip_tor()); a failed request passes through ma_ip_tor's except clause
ChangeIpBaseline ==
    /\ MainAt("change_ip")
    /\ calls' = IF calls < MaxCount THEN calls + 1 ELSE calls
    /\ \E resp \in Responses :
        /\ current_ip_before_change' = ma_ip_tor(resp)
        /\ baseline' = ma_ip_tor(resp)
        /\ lookups' = LookupsIssued(resp)
        /\ IF resp.status = "ok"
           THEN pc' = AfterBaseline(ma_ip_tor(resp)) /\ UNCHANGED procv
           ELSE IF ProbeCatches(resp.status)
           THEN pc' = "baseline_except" /\ UNCHANGED procv
           ELSE pc' = "done" /\ proc' = "crashed" /\ exit_status' = 1
    /\ slept' = 0
    /\ attempt' = 0
    /\ new_ip' = Unset
    /\ ret' = Unset
    /\ rotations' = 0
    /\ probes' = 0
    /\ settles' = 0
    /\ prior_unchanged' = TRUE
    /\ terminal_failures' = 0
    /\ warn_log' = <<>>
    /\ UNCHANGED <<cfg, fell_back, cyclev, ipv, i, attv, sigv>>

BaselineExcept ==
    /\ MainAt("baseline_except")
    /\ pc' = AfterBaseline(None)
    /\ UNCHANGED <<cfg, auxv, procv, loopv, callv, attv, sigv>>

\* variants of the loop bound: range(1, max_retries + 2), range(1, max_retries)
HasNextAttempt_OffByOne(a, m) == a <= m

HasNextAttempt_Short(a, m) == a < m - 1

\* for attempt in range(1, max_retries + 1)
HasNextAttempt(a, m) == a < m

\* top of the for loop; when the range is exhausted: the terminal report of
\* the cycle and `return None`
AttemptHead ==
    /\ MainAt("attempt_head")
    /\ IF HasNextAttempt(attempt, max_retries)
       THEN /\ attempt' = attempt + 1
            /\ pc' = "rotate"
            /\ ctl_ret' = "unset"
            /\ reload_ret' = "unset"
            /\ reload_cmd' = "none"
            /\ reload_dispatch' = "none"
            /\ att_log' = <<>>
            /\ warn_log' = <<>>
            /\ UNCHANGED <<terminal_failures, ret>>
       ELSE /\ terminal_failures' = terminal_failures + 1
            /\ ret' = None
            /\ pc' = "cycle_end"
            /\ UNCHANGED <<attempt, attv, warn_log>>
    /\ UNCHANGED <<cfg, fell_back, slept, lookups, cyclev, ipv, procv, i, calls, current_ip_before_change, new_ip, baseline,
                   rotations, probes, settles, prior_unchanged, sigv>>

\* variant: after a fallback the control port is not tried again
UseControlPort_Sticky(stem, fb) == stem /\ ~fb

\* `if STEM_AVAILABLE and ...`: what decides whether the control port is
\* tried; no earlier outcome is consulted
UseControlPort(stem, fb) == stem

\* `if STEM_AVAILABLE and change_ip_via_control_port()`: the control port is
\* tried first whenever stem is importable
Rotate ==
    /\ MainAt("rotate")
    /\ rotations' = rotations + 1
    /\ pc' = IF UseControlPort(STEM_AVAILABLE, fell_back) THEN "ctl_connect" ELSE "reload"
    /\ UNCHANGED <<cfg, auxv, procv, loopv, attempt, current_ip_before_change, new_ip, baseline,
                   probes, settles, prior_unchanged, terminal_failures, attv, sigv>>

CtlSteps == {"ctl_connect", "ctl_authenticate", "ctl_signal"}

\* variant: a failed control-port rotation is not followed by the reload
AfterControlPort_NoFallback(r) == "settle_sleep"

\* variant: the reload follows the control-port rotation whatever it returned
AfterControlPort_Both(r) == "reload"

\* `if STEM_AVAILABLE and change_ip_via_control_port(): pass` /
\* `else: reload_tor_service()`
AfterControlPort(r) == IF r = "True" THEN "settle_sleep" ELSE "reload"

CtlNext(p) == CASE p = "ctl_connect" -> "ctl_authenticate"
                [] p = "ctl_authenticate" -> "ctl_signal"
                [] OTHER -> AfterControlPort("True")

\* change_ip_via_control_port, inside the try: Controller.from_port,
\* authenticate, signal(NEWNYM); each may raise, a sent signal returns True
ControlPortStep ==
    /\ proc = "running" /\ hpc = "none" /\ pc \in CtlSteps
    /\ \E ok \in BOOLEAN :
        IF ~ok
        THEN pc' = "ctl_except" /\ UNCHANGED attv
        ELSE /\ pc' = CtlNext(pc)
             /\ IF pc = "ctl_signal"
                THEN /\ ctl_ret' = "True"
                     /\ att_log' = Append(att_log, "control_signal")
                     /\ UNCHANGED <<reload_ret, reload_cmd, reload_dispatch>>
                ELSE UNCHANGED attv
    /\ UNCHANGED <<cfg, auxv, procv, loopv, callv, sigv>>

\* change_ip_via_control_port, `except Exception`: report and return False
ControlPortExcept ==
    /\ MainAt("ctl_except")
    /\ ctl_ret' = "False"
    /\ pc' = AfterControlPort("False")
    /\ UNCHANGED <<cfg, auxv, procv, loopv, callv, reload_ret, reload_cmd, reload_dispatch,
                   att_log, sigv>>

\* a call of reload_tor_service(): the branch of the detected OS; os.system's
\* status is discarded and the function returns nothing
ReloadCall ==
    /\ reload_cmd' = reload_tor_service(os_type)
    /\ reload_dispatch' \in IF IsCommand(reload_tor_service(os_type))
                            THEN {"ok", "failed"} ELSE {"none"}
    /\ reload_ret' = "None"

\* the else branch of the rotation: reload_tor_service()
Reload ==
    /\ MainAt("reload")
    /\ ReloadCall
    /\ att_log' = Append(att_log, "reload")
    /\ fell_back' = TRUE
    /\ pc' = "settle_sleep"
    /\ UNCHANGED <<cfg, slept, lookups, warn_log, cyclev, ipv, procv, loopv, callv, ctl_ret,
                   sigv>>

\* variant: the pause grows with the attempt
SettleSeconds_Backoff(a) == ip_check_interval * a

\* the pause of the attempt: ip_check_interval, whatever the attempt
SettleSeconds(a) == ip_check_interval

\* time.sleep(ip_check_interval)
SettleSleep ==
    /\ MainAt("settle_sleep")
    /\ settles' = settles + 1
    /\ slept' = slept + SettleSeconds(attempt)
    /\ att_log' = Append(att_log, "sleep")
    /\ pc' = "attempt_probe"
    /\ UNCHANGED <<cfg, fell_back, lookups, warn_log, cyclev, ipv, procv, loopv, attempt, current_ip_before_change, new_ip, baseline,
                   rotations, probes, prior_unchanged, terminal_failures, ctl_ret,
                   reload_ret, reload_cmd, reload_dispatch, sigv>>

\* new_ip = ma_ip_tor()
AttemptProbe ==
    /\ MainAt("attempt_probe")
    /\ \E resp \in Responses :
        /\ new_ip' = ma_ip_tor(resp)
        /\ lookups' = lookups + LookupsIssued(resp)
        /\ IF resp.status = "ok"
           THEN pc' = "compare" /\ UNCHANGED procv
           ELSE IF ProbeCatches(resp.status)
           THEN pc' = "probe_except" /\ UNCHANGED procv
           ELSE pc' = "done" /\ proc' = "crashed" /\ exit_status' = 1
    /\ probes' = probes + 1
    /\ prior_unchanged' = (prior_unchanged /\ new_ip \in {Unset, baseline})
    /\ att_log' = Append(att_log, "probe")
    /\ UNCHANGED <<cfg, fell_back, slept, warn_log, cyclev, ipv, loopv, attempt, current_ip_before_change, baseline,
                   rotations, settles, terminal_failures, ctl_ret,
                   reload_ret, reload_cmd, reload_dispatch, sigv>>

ProbeExcept ==
    /\ MainAt("probe_except")
    /\ pc' = "compare"
    /\ UNCHANGED <<cfg, auxv, procv, loopv, callv, attv, sigv>>

\* variants of the success test: no comparison; == for !=
IsSuccess_NoCompare(new, cur) == Truthy(new)

IsSuccess_Inverted(new, cur) == Truthy(new) /\ new = cur

\* `if new_ip and new_ip != current_ip_before_change`
IsSuccess(new, cur) == Truthy(new) /\ new # cur

\* variant: the candidate replaces the comparison value even when absent
UpdateCurrent_Always(new, cur) == new

\* variant: an absent candidate clears the comparison value
UpdateCurrent_Reset(new, cur) == IF Truthy(new) THEN new ELSE None

\* `current_ip_before_change = new_ip if new_ip else current_ip_before_change`
UpdateCurrent(new, cur) == IF Truthy(new) THEN new ELSE cur

\* variant: the elif without the truth test of the candidate
WarningKind_NoTruthTest(new, cur) == IF new = cur THEN "ip_unchanged" ELSE "no_new_ip"

\* `elif new_ip and new_ip == current_ip_before_change:` "IP address did not
\* change", `else:` "Failed to obtain new IP"
WarningKind(new, cur) ==
    IF Truthy(new) /\ new = cur THEN "ip_unchanged" ELSE "no_new_ip"

\* the if / elif / else after the probe and the update of the comparison value
Compare ==
    /\ MainAt("compare")
    /\ IF IsSuccess(new_ip, current_ip_before_change)
       THEN /\ ret' = new_ip
            /\ pc' = "cycle_end"
            /\ UNCHANGED <<current_ip_before_change, warn_log>>
       ELSE /\ warn_log' = Append(warn_log, WarningKind(new_ip, current_ip_before_change))
            /\ current_ip_before_change' = UpdateCurrent(new_ip, current_ip_before_change)
            /\ pc' = "attempt_head"
            /\ UNCHANGED ret
    /\ UNCHANGED <<cfg, fell_back, slept, lookups, cyclev, ipv, procv, i, calls, attempt, new_ip, baseline, rotations, probes,
                   settles, prior_unchanged, terminal_failures, attv, sigv>>

\* back in change_ip_repeatedly: `if new_ip: print_ip(new_ip)`, else the
\* next iteration
CycleEnd ==
    /\ MainAt("cycle_end")
    /\ IF Truthy(ret)
       THEN pc' = "print_ip" /\ UNCHANGED <<i, cycle_slept>>
       ELSE /\ pc' = "loop_head"
            /\ i' = IF count = 0 THEN i ELSE i + 1
            /\ cycle_slept' = FALSE
    /\ UNCHANGED <<cfg, fell_back, slept, lookups, warn_log, reported, ipv, procv, ret, calls,
                   callv, attv, sigv>>

\* print_ip: get_ip_geolocation, then the report; an exception that
\* get_ip_geolocation does not catch leaves the loop and ends the process
PrintIp ==
    /\ MainAt("print_ip")
    /\ \E lookup \in GeoLookups :
        IF get_ip_geolocation(ret, lookup) = "RAISE"
        THEN /\ proc' = "crashed"
             /\ exit_status' = 1
             /\ pc' = "done"
             /\ UNCHANGED <<i, cyclev>>
        ELSE /\ reported' = TRUE
             /\ cycle_slept' = FALSE
             /\ pc' = "loop_head"
             /\ i' = IF count = 0 THEN i ELSE i + 1
             /\ UNCHANGED procv
    /\ UNCHANGED <<cfg, fell_back, slept, lookups, warn_log, ipv, ret, calls, callv, attv,
                   sigv>>

\* ------------------------------------------------------- signal_handler
\* SIGINT or SIGQUIT: the handler runs on top of whatever is executing, the
\* main line or a handler that has not finished; it calls stop_services()
Signal ==
    /\ proc = "running"
    /\ signals < MaxSignals
    /\ signals' = signals + 1
    /\ stop_calls' = stop_calls + 1
    /\ hpc' = "stop_control_port"
    /\ h_log' = <<>>
    /\ UNCHANGED <<cfg, auxv, pc, procv, loopv, callv, attv>>

\* stop_tor_service_gracefully, `if STEM_AVAILABLE:` Controller.from_port;
\* `except Exception` swallows a failure
StopControlPort ==
    /\ proc = "running" /\ hpc = "stop_control_port"
    /\ IF STEM_AVAILABLE
       THEN \E ok \in BOOLEAN :
               IF ok
               THEN hpc' = "stop_control_port_open" /\ UNCHANGED h_log
               ELSE hpc' = "stop_os" /\ h_log' = Append(h_log, "control_port_failed")
       ELSE hpc' = "stop_os" /\ UNCHANGED h_log
    /\ UNCHANGED <<cfg, auxv, pc, procv, loopv, callv, attv, stop_calls, signals>>

\* stop_tor_service_gracefully, inside the `with`: controller.authenticate(),
\* then the connection is closed
StopControlPortAuth ==
    /\ proc = "running" /\ hpc = "stop_control_port_open"
    /\ \E ok \in BOOLEAN :
        h_log' = Append(h_log, IF ok THEN "control_port" ELSE "control_port_failed")
    /\ hpc' = "stop_os"
    /\ UNCHANGED <<cfg, auxv, pc, procv, loopv, callv, attv, stop_calls, signals>>

\* stop_tor_service_gracefully, the OS branch
StopOs ==
    /\ proc = "running" /\ hpc = "stop_os"
    /\ h_log' = Append(h_log, stop_tor_service_cmd(os_type))
    /\ hpc' = "pkill"
    /\ UNCHANGED <<cfg, auxv, pc, procv, loopv, callv, attv, stop_calls, signals>>

\* os.system("pkill -f tornet"): SIGTERM to every process whose command
\* line contains "tornet"; this process is one of them when it was started
\* under that name, and then ends here with the signal's status
Pkill ==
    /\ proc = "running" /\ hpc = "pkill"
    /\ h_log' = Append(h_log, "pkill")
    /\ \E self_matches \in BOOLEAN :
        IF self_matches
        THEN proc' = "killed" /\ exit_status' = SigTermStatus /\ hpc' = "none"
        ELSE hpc' = "exit" /\ UNCHANGED procv
    /\ UNCHANGED <<cfg, auxv, pc, loopv, callv, attv, stop_calls, signals>>

\* variant: the handler returns to the interrupted code instead of exiting
HandlerExit_Returns ==
    /\ proc = "running" /\ hpc = "exit"
    /\ h_log' = Append(h_log, "return")
    /\ hpc' = "none"
    /\ UNCHANGED <<cfg, auxv, pc, procv, loopv, callv, attv, stop_calls, signals>>

\* back in signal_handler: exit(0) raises SystemExit, which no `except
\* Exception` / `except requests.RequestException` on the stack catches
HandlerExit ==
    /\ proc = "running" /\ hpc = "exit"
    /\ h_log' = Append(h_log, "exit")
    /\ proc' = "exited"
    /\ exit_status' = 0
    /\ hpc' = "none"
    /\ UNCHANGED <<cfg, auxv, pc, loopv, callv, attv, stop_calls, signals>>

Next ==
    \/ MainStart
    \/ IpMode
    \/ CheckInstalled
    \/ AutoFix
    \/ MainStop
    \/ CheckInternet
    \/ Initialize
    \/ LoopHead
    \/ IntervalSleep
    \/ ChangeIpBaseline
    \/ BaselineExcept
    \/ AttemptHead
    \/ Rotate
    \/ ControlPortStep
    \/ ControlPortExcept
    \/ Reload
    \/ SettleSleep
    \/ AttemptProbe
    \/ ProbeExcept
    \/ Compare
    \/ CycleEnd
    \/ PrintIp
    \/ Signal
    \/ StopControlPort
    \/ StopControlPortAuth
    \/ StopOs
    \/ Pkill
    \/ HandlerExit

Spec == Init /\ [][Next]_vars

\* ------------------------------------------------- the platform functions
\* get_os_type, is_tor_installed and reload_tor_service called in isolation
\* on any host, as the unit tests call them
FnInit ==
    /\ \E h \in Hosts :
        /\ system = h.system
        /\ which_tor = h.which_tor
        /\ exists_tb = h.exists_tb
        /\ exists_system = h.exists_system
    /\ os_type = "undetected"
    /\ args = [ip |-> FALSE, auto_fix |-> FALSE, stop |-> FALSE]
    /\ STEM_AVAILABLE = FALSE
    /\ count = 0
    /\ max_retries = 0
    /\ pc = "fn_start"
    /\ InitIdle

FnGetOsType ==
    /\ pc = "fn_start"
    /\ os_type' = get_os_type(system)
    /\ pc' = "fn_os"
    /\ UNCHANGED <<STEM_AVAILABLE, count, max_retries, hostv, startv, auxv, procv, loopv,
                   callv, attv, sigv>>

FnIsTorInstalled ==
    /\ pc = "fn_os"
    /\ installed' = IF is_tor_installed(os_type, which_tor, exists_tb, exists_system)
                     THEN "True" ELSE "False"
    /\ pc' = "fn_installed"
    /\ UNCHANGED <<os_type, STEM_AVAILABLE, count, max_retries, hostv, args, connected,
                   conn_tries, auxv, procv, loopv, callv, attv, sigv>>

FnReload ==
    /\ pc = "fn_installed"
    /\ ReloadCall
    /\ pc' = "fn_reloaded"
    /\ UNCHANGED <<cfg, auxv, procv, loopv, callv, ctl_ret, att_log, sigv>>

FnNext ==
    \/ FnGetOsType
    \/ FnIsTorInstalled
    \/ FnReload

SpecOs == FnInit /\ [][FnNext]_vars

TypeOK ==
    /\ proc \in {"running", "returned", "crashed", "exited", "killed"}
    /\ attempt \in 0..(MaxRetries + 1)
    /\ calls \in 0..MaxCount
    /\ stop_calls \in 0..MaxSignals

\* ----------------------------------------------------------- properties
Ended == proc # "running"

\* change_ip_repeatedly has been called
LoopEntered == connected = "True" /\ pc # "initialize"

\* the rotation step of the current attempt is over
RotationDone == pc \in {"settle_sleep", "attempt_probe", "probe_except", "compare"}

\* what the rotation step of the attempt produced: True from a sent control
\* signal, else whatever reload_tor_service() returned
RotateResult == IF ctl_ret = "True" THEN "True" ELSE reload_ret

\* C1: a value returned by change_ip that is not None is non-empty, is the
\* result of the most recent post-rotation probe and differs from the
\* baseline probed at the start of the call
C1_ReturnDiffersFromBaseline ==
    (ret # Unset /\ ret # None) =>
        /\ Truthy(ret)
        /\ probes >= 1
        /\ ret = new_ip
        /\ ret # baseline

C1_Witness ==
    /\ ret \in Addrs
    /\ baseline \in Addrs
    /\ attempt >= 2
    /\ pc = "cycle_end"

\* C2: a call never performs more than max_retries rotations or post-rotation
\* probes; the terminal failure comes after exactly max_retries attempts,
\* returns None, and ends neither the process nor the loop
C2_AtMostMaxRetries ==
    /\ rotations <= max_retries
    /\ probes <= max_retries
    /\ settles <= max_retries
    /\ terminal_failures > 0 =>
          /\ attempt = max_retries
          /\ rotations = max_retries
          /\ ret = None
          /\ signals = 0 => /\ proc \in {"running", "returned"}
                            /\ proc = "returned" => i = count
                            /\ pc \in {"cycle_end", "loop_head", "interval_sleep",
                                       "change_ip", "done"}

C2_Witness ==
    /\ terminal_failures = 1
    /\ max_retries >= 2
    /\ rotations = max_retries
    /\ pc = "interval_sleep"
    /\ proc = "running"

\* C3: baseline a, the probes of attempts 1..k-1 return a, the probe of
\* attempt k returns b # a: the call returns b after exactly k rotations, k
\* settle sleeps and k probes, and nothing of the call happens afterwards
C3_ReturnsAtFirstChange ==
    (/\ baseline \in Addrs
     /\ prior_unchanged
     /\ new_ip \in Addrs
     /\ new_ip # baseline
     /\ pc # "compare") =>
        /\ ret = new_ip
        /\ rotations = attempt
        /\ settles = attempt
        /\ probes = attempt
        /\ attempt <= max_retries
        /\ terminal_failures = 0
        /\ pc \in {"cycle_end", "print_ip", "loop_head", "interval_sleep", "change_ip",
                   "done"}

C3_Witness ==
    /\ baseline \in Addrs
    /\ prior_unchanged
    /\ ret \in Addrs
    /\ attempt = 2
    /\ probes = 2
    /\ rotations = 2
    /\ pc = "cycle_end"

\* every probe of the call so far returned the same address
AllSame == baseline \in Addrs /\ prior_unchanged /\ new_ip \in {Unset, baseline}

\* C4: when the baseline probe and every post-rotation probe return the same
\* address, the call returns only after exactly max_retries attempts, returns
\* None with exactly one terminal report, and the process does not end by it
C4_AllUnchangedFails ==
    AllSame =>
        /\ ret \in {Unset, None}
        /\ terminal_failures <= 1
        /\ ret = None <=> terminal_failures = 1
        /\ ret = None => /\ rotations = max_retries
                         /\ settles = max_retries
                         /\ probes = max_retries
        /\ proc # "crashed"
        /\ signals = 0 => proc \in {"running", "returned"}

C4_Witness ==
    /\ AllSame
    /\ max_retries >= 2
    /\ ret = None
    /\ terminal_failures = 1
    /\ probes = max_retries
    /\ pc = "loop_head"

\* C5 (as stated): after a failed or unavailable control-port rotation the
\* reload is the first thing of the attempt, before the settle sleep and the
\* probe, and the rotation yields True when the reload command was dispatched
C5_ReloadReturnsTrue ==
    (RotationDone /\ ctl_ret # "True") =>
        /\ att_log # <<>>
        /\ att_log[1] = "reload"
        /\ reload_dispatch = "ok" => RotateResult = "True"

\* C5 (amended): after a failed or unavailable control-port rotation
\* reload_tor_service runs in the same attempt, before the settle sleep and
\* the probe; it returns nothing, so the rotation step yields no True
C5_ReloadInSameAttempt ==
    (RotationDone /\ ctl_ret # "True") =>
        /\ att_log # <<>>
        /\ att_log[1] = "reload"
        /\ \A k \in 2..Len(att_log) : att_log[k] \in {"sleep", "probe"}
        /\ reload_cmd = reload_tor_service(os_type)
        /\ reload_ret = "None"
        /\ RotateResult # "True"

C5_Witness ==
    /\ STEM_AVAILABLE
    /\ ctl_ret = "False"
    /\ reload_dispatch = "ok"
    /\ att_log = <<"reload", "sleep", "probe">>
    /\ pc = "compare"

\* C6: without a signal, a loop with count = n > 0 ends only by returning
\* normally, after exactly n calls of change_ip
C6_ExactlyCountCalls ==
    (LoopEntered /\ count > 0 /\ signals = 0) =>
        /\ proc \in {"running", "returned"}
        /\ calls <= count
        /\ proc = "returned" => calls = count

\* C7: with count = 0, once a signal has been delivered stop_services has
\* been invoked exactly once, also after a further signal, and the process
\* ends by exit(0)
C7_TeardownExactlyOnce ==
    (LoopEntered /\ count = 0 /\ signals > 0) =>
        /\ stop_calls = 1
        /\ Ended => proc = "exited" /\ exit_status = 0

\* the steps of a complete handler run, in order
HandlerRuns ==
    {<<c, stop_tor_service_cmd(os_type), "pkill", "exit">> :
        c \in {"control_port", "control_port_failed"}}
    \cup {<<stop_tor_service_cmd(os_type), "pkill", "exit">>}

IsPrefix(s, t) == Len(s) <= Len(t) /\ s = SubSeq(t, 1, Len(s))

\* C8: the handler does the control-port step, the OS-level stop and the
\* pkill in this order, and a process that ended after a signal ended by
\* exit(0) at the end of a complete handler run
C8_HandlerOrderAndExit ==
    signals > 0 =>
        /\ \E run \in HandlerRuns : IsPrefix(h_log, run)
        /\ Ended => /\ proc = "exited"
                    /\ exit_status = 0
                    /\ h_log \in HandlerRuns

\* C9: once stop_services has been invoked the main line never moves again:
\* no step of change_ip_repeatedly or change_ip is taken
C9_NoLoopAfterTeardown ==
    [][stop_calls > 0 => /\ pc' = pc
                        /\ UNCHANGED <<loopv, callv, attv>>]_vars

C9_Witness ==
    /\ proc = "exited"
    /\ pc = "ctl_except"
    /\ stop_calls = 1

\* C10: with count = 0 and no signal the loop never ends
C10_InfiniteLoopNeverEnds ==
    (LoopEntered /\ count = 0 /\ signals = 0) => proc = "running"

\* the positions of the main line inside change_ip_repeatedly
LoopPcs == {"loop_head", "interval_sleep", "change_ip", "baseline_except", "attempt_head",
            "rotate", "ctl_connect", "ctl_authenticate", "ctl_signal", "ctl_except",
            "reload", "settle_sleep", "attempt_probe", "probe_except", "compare",
            "cycle_end", "print_ip"}

\* C11: the loop is entered only with Tor installed and the connectivity
\* check passed; without Tor the process ends before the loop with no
\* rotation; a failed connectivity check ends it with status 1 after its 3
\* tries; the completed loop and --stop end it with status 0
C11_StartupGates ==
    /\ pc \in LoopPcs => installed = "True" /\ connected = "True"
    /\ installed = "False" => calls = 0 /\ rotations = 0 /\ pc \notin LoopPcs
    /\ connected = "False" => /\ pc \notin LoopPcs
                              /\ calls = 0
                              /\ Ended
                              /\ exit_status = 1
                              /\ conn_tries = ConnTries
    /\ proc = "returned" /\ LoopEntered => exit_status = 0
    /\ (pc = "done" /\ installed = "True" /\ args.stop /\ ~args.auto_fix /\ ~args.ip
        /\ signals = 0) => exit_status = 0

C14_FallbackNotSticky ==
    (STEM_AVAILABLE /\ pc \in {"reload", "settle_sleep", "attempt_probe", "probe_except",
                               "compare"}) =>
        /\ ctl_ret \in {"True", "False"}
        /\ "reload" \in {att_log[k] : k \in 1..Len(att_log)} => ctl_ret = "False"

C14_Witness ==
    /\ STEM_AVAILABLE
    /\ fell_back
    /\ pc = "settle_sleep"
    /\ ctl_ret = "True"
    /\ attempt = 2

\* a call of reload_tor_service has returned
Reloaded == pc = "fn_reloaded"

\* C15 (as stated): a distinct command on Linux and on macOS; on Windows and
\* on an unknown OS no command, manual-action guidance, and the result False
C15_GuidanceAndFalse ==
    Reloaded =>
        /\ os_type \in {"Linux", "macOS"} => IsCommand(reload_cmd)
        /\ os_type = "macOS" => reload_cmd # reload_tor_service("Linux")
        /\ os_type \in {"Windows", "Unknown"} => /\ reload_dispatch = "none"
                                                 /\ reload_cmd = "guidance"
                                                 /\ reload_ret = "False"
        /\ proc = "running"

\* C15 (amended): systemctl reload on Linux, brew services restart on macOS;
\* on Windows no command and manual-action guidance; on an unknown OS no
\* command and an unsupported-OS report; on every OS nothing is returned
\* and nothing is raised
C15_CommandPerOs ==
    Reloaded =>
        /\ os_type = "Linux" => /\ reload_cmd = "sudo systemctl reload tor"
                                /\ reload_dispatch \in {"ok", "failed"}
        /\ os_type = "macOS" => /\ reload_cmd = "brew services restart tor"
                                /\ reload_dispatch \in {"ok", "failed"}
        /\ os_type = "Windows" => reload_cmd = "guidance" /\ reload_dispatch = "none"
        /\ os_type = "Unknown" => reload_cmd = "unsupported" /\ reload_dispatch = "none"
        /\ os_type \in OsTypes
        /\ reload_ret = "None"
        /\ proc = "running"

C15_Witness ==
    /\ Reloaded
    /\ os_type = "Unknown"
    /\ reload_cmd = "unsupported"
    /\ reload_ret = "None"

\* control-port connections this process holds open: the one of the
\* interrupted change_ip_via_control_port and the one of the running handler
ControlConnections ==
    (IF proc = "running" /\ pc \in {"ctl_authenticate", "ctl_signal"} THEN 1 ELSE 0)
    + (IF proc = "running" /\ hpc = "stop_control_port_open" THEN 1 ELSE 0)

\* C16: the control port is never used by two activities of the process at
\* once, also when the handler preempts a rotation
C16_OneControlConnection ==
    ControlConnections <= 1

\* C17: get_os_type maps Linux, Darwin, Windows to Linux, macOS, Windows and
\* anything else to Unknown; is_tor_installed yields a boolean, False on an
\* unknown OS
C17_OsTypeTotal ==
    /\ pc \in {"fn_os", "fn_installed", "fn_reloaded"} =>
          /\ os_type \in OsTypes
          /\ system = "Linux" => os_type = "Linux"
          /\ system = "Darwin" => os_type = "macOS"
          /\ system = "Windows" => os_type = "Windows"
          /\ system \notin {"Linux", "Darwin", "Windows"} => os_type = "Unknown"
    /\ pc \in {"fn_installed", "fn_reloaded"} =>
          /\ installed \in {"True", "False"}
          /\ os_type = "Unknown" => installed = "False"

C17_Witness ==
    /\ pc = "fn_installed"
    /\ system = "Java"
    /\ which_tor = 0
    /\ os_type = "Unknown"
    /\ installed = "False"

\* the steps an attempt takes, in order, after either rotation mechanism
AttemptRuns == {<<r, "sleep", "probe">> : r \in {"control_signal", "reload"}}

\* C18: every attempt is one rotation step, then one settle sleep of
\* ip_check_interval seconds, then one probe, whatever the rotation did
C18_RotateSleepProbe ==
    /\ pc \in LoopPcs => \E run \in AttemptRuns : IsPrefix(att_log, run) \/ att_log = <<>>
    /\ pc \in {"compare", "probe_except"} => att_log \in AttemptRuns
    /\ pc = "attempt_probe" => Len(att_log) = 2
    /\ slept = settles * ip_check_interval
    /\ pc \in {"attempt_probe", "probe_except", "compare"} => settles = attempt
    /\ pc = "compare" => probes = attempt /\ rotations = attempt

C18_Witness ==
    /\ pc = "compare"
    /\ attempt = 2
    /\ reload_dispatch = "failed"
    /\ ctl_ret = "False"
    /\ slept = 2 * ip_check_interval

\* the call of change_ip is over
CallOver == pc \in {"cycle_end", "print_ip", "loop_head", "interval_sleep", "change_ip",
                    "done"}

\* C19: with a failed baseline probe the call goes on: the first attempt
\* whose probe returns an address returns it; with no such attempt the call
\* returns None after max_retries attempts
C19_FailedBaselineProceeds ==
    baseline = None =>
        /\ (Truthy(new_ip) /\ new_ip # Unset /\ pc # "compare") =>
              /\ ret = new_ip
              /\ probes = attempt
              /\ CallOver
        /\ (CallOver /\ proc # "crashed") => ret # Unset
        /\ ret = None => /\ rotations = max_retries
                         /\ probes = max_retries
                         /\ new_ip \in {Unset, None, <<>>}

C19_Witness ==
    /\ baseline = None
    /\ ret \in Addrs
    /\ attempt = 2
    /\ pc = "cycle_end"

\* C20: a failed attempt sets the comparison value to the candidate when the
\* candidate is present, leaves it alone when it is not, and goes to the next
\* attempt without returning
C20_ComparisonValueUpdate ==
    [][(pc = "compare" /\ pc' = "attempt_head") =>
          /\ current_ip_before_change' =
                IF Truthy(new_ip) THEN new_ip ELSE current_ip_before_change
          /\ ret' = ret
          /\ ret = Unset]_vars

C20_Witness ==
    /\ pc = "attempt_head"
    /\ attempt = 1
    /\ new_ip = None
    /\ current_ip_before_change \in Addrs
    /\ ret = Unset

\* C21: an attempt that fails reports exactly one warning, "IP unchanged"
\* exactly when the candidate is present and equal to the comparison value,
\* "no new IP" exactly when the candidate is None or empty; an attempt that
\* succeeds reports none
C21_OneWarningPerFailedAttempt ==
    [][(pc = "compare" /\ pc' \in {"attempt_head", "cycle_end"}) =>
          LET present == new_ip # None /\ new_ip # <<>>
              same == new_ip = current_ip_before_change
          IN  /\ warn_log = <<>>
              /\ pc' = "cycle_end" => warn_log' = <<>> /\ ret' = new_ip
              /\ pc' = "attempt_head" =>
                    /\ Len(warn_log') = 1
                    /\ (warn_log'[1] = "ip_unchanged") <=> (present /\ same)
                    /\ (warn_log'[1] = "no_new_ip") <=> ~present]_vars

C21_Witness ==
    /\ pc = "attempt_head"
    /\ attempt = 1
    /\ warn_log = <<"no_new_ip">>
    /\ new_ip = None
    /\ current_ip_before_change = None

\* the positions of the main line inside change_ip
CallPcs == LoopPcs \ {"loop_head", "interval_sleep", "change_ip", "cycle_end", "print_ip"}

\* C22: in every cycle the interval sleep has returned before change_ip is
\* called, so no rotation precedes the first interval; at the end of a cycle
\* the IP has been reported exactly when change_ip returned a present IP
C22_SleepFirstReportIffPresent ==
    /\ pc \in CallPcs \cup {"change_ip"} => cycle_slept
    /\ (LoopEntered /\ calls = 0) => rotations = 0
    /\ (LoopEntered /\ calls > 0 /\ signals = 0 /\ pc \in {"loop_head", "done"}) =>
          (reported <=> (Truthy(ret) /\ ret # Unset))

\* C23: get_ip_geolocation gives "Unknown" for None and for the empty string
\* whatever the lookup would do, and no outcome of the lookup ends the loop
C23_GeolocationNeverBreaks ==
    /\ \A l \in GeoLookups : /\ get_ip_geolocation(None, l) = "Unknown"
                             /\ get_ip_geolocation(<<>>, l) = "Unknown"
    /\ (LoopEntered /\ pc = "done" /\ Truthy(ret) /\ ret # Unset /\ signals = 0) =>
          proc = "returned"

\* C24: in --ip mode ma_ip makes one probe, through the proxy exactly when
\* Tor is detected as running; nothing is installed, started or rotated; a
\* present IP is printed and the process returns
C24_IpModeOneProbe ==
    (args.ip /\ pc = "done" /\ signals = 0) =>
        /\ ip_log \in {<<"running", "ma_ip_tor">>, <<"not_running", "ma_ip_normal">>}
        /\ os_type = "Windows" => ip_log[1] = "running"
        /\ os_type = "Unknown" => ip_log[1] = "not_running"
        /\ installed = "unset" /\ connected = "unset"
        /\ calls = 0 /\ rotations = 0 /\ stop_calls = 0
        /\ (Truthy(ip) /\ ip # Unset) => reported /\ proc = "returned" /\ exit_status = 0

\* C25: during a call of change_ip the comparison value equals the baseline
\* probed at the start of the call, at the start of every attempt and at
\* every comparison
C25_ComparisonValueIsBaseline ==
    /\ current_ip_before_change = baseline
    /\ pc \in CallPcs => baseline # Unset

C25_Witness ==
    /\ pc = "attempt_head"
    /\ attempt = 2
    /\ new_ip \in Addrs
    /\ baseline = new_ip
    /\ warn_log = <<"ip_unchanged">>

\* the rotation mechanisms the current attempt has used
Mechanisms == SelectSeq(att_log, LAMBDA e : e \in {"control_signal", "reload"})

\* C26: once the rotation step of an attempt is over exactly one mechanism
\* has been used: the reload exactly when stem is missing or the control-port
\* rotation returned False, never after a control signal that was sent
C26_OneRotationMechanism ==
    RotationDone =>
        /\ Len(Mechanisms) = 1
        /\ (reload_ret = "None") <=> (~STEM_AVAILABLE \/ ctl_ret = "False")
        /\ (Mechanisms = <<"reload">>) <=> (reload_ret = "None")
        /\ ctl_ret = "True" => /\ Mechanisms = <<"control_signal">>
                               /\ reload_cmd = "none"
                               /\ reload_dispatch = "none"

C26_Witness ==
    /\ pc = "settle_sleep"
    /\ STEM_AVAILABLE
    /\ ctl_ret = "True"
    /\ att_log = <<"control_signal">>
    /\ reload_ret = "unset"

\* C27: with a negative count the loop makes no sleep and no change_ip call
\* and returns; a positive count bounds the iterations; with count = 0 the
\* loop never returns
C27_NegativeCountNoCycle ==
    /\ count < 0 => /\ calls = 0
                    /\ ~cycle_slept
                    /\ pc \notin (LoopPcs \ {"loop_head"})
                    /\ (LoopEntered /\ pc = "done" /\ signals = 0) =>
                          proc = "returned" /\ exit_status = 0
    /\ (count > 0 /\ LoopEntered) => i <= count /\ calls <= count
    /\ (count = 0 /\ LoopEntered) => proc # "returned"

C27_Witness ==
    /\ count = -1
    /\ LoopEntered
    /\ pc = "done"
    /\ proc = "returned"
    /\ calls = 0
    /\ signals = 0

====
